---- MODULE Spec2Model ----
(***************************************************************************)
(* A model of the FlightXML2 client binding of flightaware/client.py: the  *)
(* timestamp conversions, the response-envelope unwrapping of              *)
(* Client._request, and one action per Client operation.                   *)
(*                                                                         *)
(* Python values are tagged records (field t is the Python type).  The     *)
(* text of a str is a sequence of one-character strings, so that the       *)
(* substring test of `in` is computed; the keys of a dict are TLA+ strings *)
(* and Chars gives their characters.  A Python call that can raise is an   *)
(* operator returning [exc, value]: exc is "none" or the exception's name. *)
(***************************************************************************)
EXTENDS Integers, Sequences, FiniteSets, TLC

VARIABLES
    auth,        \* self.auth: the credential pair of the client
    headers,     \* self.headers: the headers mapping of the client
    constructed, \* what Client.__init__ set: [auth, headers]
    tz,          \* the host's local UTC offset in seconds (read by fromtimestamp)
    call,        \* the most recent operation call: [op, args]
    sent,        \* the HTTP POSTs that call issued, in order
    reply,       \* what the service answered to that call's POST
    outcome,     \* how the call ended: [exc, value]
    trip,        \* a datetime taken through both timestamp conversions
    probe        \* a decoded body taken through _request

vars == <<auth, headers, constructed, tz, call, sent, reply, outcome, trip, probe>>

----------------------------------------------------------------------------
(* Bounds of the model *)

\* the longest list of flight records the service sends
MaxRecords == 2
\* the days before and after 1970-01-01 the datetimes of the bench span
MaxDays == 1

----------------------------------------------------------------------------
(* Python values *)

\* the characters of the str literals the model uses
Chars ==
    ("" :> <<>>)
    @@ ("data" :> <<"d", "a", "t", "a">>)
    @@ ("error" :> <<"e", "r", "r", "o", "r">>)
    @@ ("AircraftTypeResult" :> <<"A", "i", "r", "c", "r", "a", "f", "t", "T", "y", "p", "e", "R", "e", "s", "u", "l", "t">>)
    @@ ("AirlineFlightInfoResult" :> <<"A", "i", "r", "l", "i", "n", "e", "F", "l", "i", "g", "h", "t", "I", "n", "f", "o", "R", "e", "s", "u", "l", "t">>)
    @@ ("AirlineFlightSchedulesResult" :> <<"A", "i", "r", "l", "i", "n", "e", "F", "l", "i", "g", "h", "t", "S", "c", "h", "e", "d", "u", "l", "e", "s", "R", "e", "s", "u", "l", "t">>)
    @@ ("AirlineInfoResult" :> <<"A", "i", "r", "l", "i", "n", "e", "I", "n", "f", "o", "R", "e", "s", "u", "l", "t">>)
    @@ ("AirlineInsightResult" :> <<"A", "i", "r", "l", "i", "n", "e", "I", "n", "s", "i", "g", "h", "t", "R", "e", "s", "u", "l", "t">>)
    @@ ("AirportInfoResult" :> <<"A", "i", "r", "p", "o", "r", "t", "I", "n", "f", "o", "R", "e", "s", "u", "l", "t">>)
    @@ ("AllAirlinesResult" :> <<"A", "l", "l", "A", "i", "r", "l", "i", "n", "e", "s", "R", "e", "s", "u", "l", "t">>)
    @@ ("AllAirportsResult" :> <<"A", "l", "l", "A", "i", "r", "p", "o", "r", "t", "s", "R", "e", "s", "u", "l", "t">>)
    @@ ("BlockIdentCheckResult" :> <<"B", "l", "o", "c", "k", "I", "d", "e", "n", "t", "C", "h", "e", "c", "k", "R", "e", "s", "u", "l", "t">>)
    @@ ("CountAirportOperationsResult" :> <<"C", "o", "u", "n", "t", "A", "i", "r", "p", "o", "r", "t", "O", "p", "e", "r", "a", "t", "i", "o", "n", "s", "R", "e", "s", "u", "l", "t">>)
    @@ ("CountAllEnrouteAirlineOperationsResult" :> <<"C", "o", "u", "n", "t", "A", "l", "l", "E", "n", "r", "o", "u", "t", "e", "A", "i", "r", "l", "i", "n", "e", "O", "p", "e", "r", "a", "t", "i", "o", "n", "s", "R", "e", "s", "u", "l", "t">>)
    @@ ("GetFlightIDResult" :> <<"G", "e", "t", "F", "l", "i", "g", "h", "t", "I", "D", "R", "e", "s", "u", "l", "t">>)
    @@ ("MetarResult" :> <<"M", "e", "t", "a", "r", "R", "e", "s", "u", "l", "t">>)
    @@ ("MetarExResult" :> <<"M", "e", "t", "a", "r", "E", "x", "R", "e", "s", "u", "l", "t">>)
    @@ ("NTafResult" :> <<"N", "T", "a", "f", "R", "e", "s", "u", "l", "t">>)
    @@ ("TailOwnerResult" :> <<"T", "a", "i", "l", "O", "w", "n", "e", "r", "R", "e", "s", "u", "l", "t">>)
    @@ ("ZipcodeInfoResult" :> <<"Z", "i", "p", "c", "o", "d", "e", "I", "n", "f", "o", "R", "e", "s", "u", "l", "t">>)
    @@ ("BNA" :> <<"B", "N", "A">>)
    @@ ("ATL" :> <<"A", "T", "L">>)
    @@ ("KasdfBNA" :> <<"K", "a", "s", "d", "f", "B", "N", "A">>)
    @@ ("SWA" :> <<"S", "W", "A">>)
    @@ ("GALX" :> <<"G", "A", "L", "X">>)
    @@ ("N12345" :> <<"N", "1", "2", "3", "4", "5">>)
    @@ ("37221" :> <<"3", "7", "2", "2", "1">>)
    @@ ("metadata" :> <<"m", "e", "t", "a", "d", "a", "t", "a">>)
    @@ ("METAR" :> <<"M", "E", "T", "A", "R">>)
    @@ ("name" :> <<"n", "a", "m", "e">>)
    @@ ("location" :> <<"l", "o", "c", "a", "t", "i", "o", "n">>)
    @@ ("timezone" :> <<"t", "i", "m", "e", "z", "o", "n", "e">>)
    @@ ("ident" :> <<"i", "d", "e", "n", "t">>)
    @@ ("departuretime" :> <<"d", "e", "p", "a", "r", "t", "u", "r", "e", "t", "i", "m", "e">>)
    @@ ("arrivaltime" :> <<"a", "r", "r", "i", "v", "a", "l", "t", "i", "m", "e">>)
    @@ ("departure_time" :> <<"d", "e", "p", "a", "r", "t", "u", "r", "e", "_", "t", "i", "m", "e">>)
    @@ ("arrival_time" :> <<"a", "r", "r", "i", "v", "a", "l", "_", "t", "i", "m", "e">>)
    @@ ("INVALID" :> <<"I", "N", "V", "A", "L", "I", "D">>)
    @@ ("Nashville" :> <<"N", "a", "s", "h", "v", "i", "l", "l", "e">>)
    @@ ("2013-01-01" :> <<"2", "0", "1", "3", "-", "0", "1", "-", "0", "1">>)
    @@ ("SWA1" :> <<"S", "W", "A", "1">>)
    @@ ("SWA2" :> <<"S", "W", "A", "2">>)
    @@ ("faFlightID" :> <<"f", "a", "F", "l", "i", "g", "h", "t", "I", "D">>)
    @@ ("ok" :> <<"o", "k">>)

PyNone == [t |-> "NoneType"]

PyInt(n) == [t |-> "int", n |-> n]

PyStr(s) == [t |-> "str", s |-> s]

PyList(xs) == [t |-> "list", items |-> xs]

PyDict(kv) == [t |-> "dict", kv |-> kv]

\* a datetime.datetime: the day counted from 1970-01-01, the second of the day,
\* the microsecond, and whether it carries a tzinfo ("naive" or "aware")
PyDatetime(days, seconds, microseconds, tzinfo) ==
    [t |-> "datetime", days |-> days, seconds |-> seconds,
     microseconds |-> microseconds, tzinfo |-> tzinfo]

Str(s) == PyStr(Chars[s])

EmptyDict == PyDict(<<>>)

Return(v) == [exc |-> "none", value |-> v]

Raise(e) == [exc |-> e, value |-> PyNone]

\* bool(v)
Truthy(v) ==
    CASE v.t = "NoneType" -> FALSE
      [] v.t = "int" -> v.n # 0
      [] v.t = "str" -> v.s # <<>>
      [] v.t = "list" -> v.items # <<>>
      [] v.t = "dict" -> DOMAIN v.kv # {}
      [] v.t = "datetime" -> TRUE

\* whether `x in c` is defined for c: a dict, a str or a list; any other
\* JSON value (a number, null) raises TypeError
SupportsIn(c) == c.t \in {"dict", "str", "list"}

\* needle occurs in hay as a contiguous run of characters
IsSubstring(needle, hay) ==
    \E i \in 0..(Len(hay) - Len(needle)) :
        \A j \in 1..Len(needle) : hay[i + j] = needle[j]

\* `key in c` for a str key: a key of the dict, a substring of the str, an
\* element of the list
PyContains(key, c) ==
    CASE c.t = "dict" -> key \in DOMAIN c.kv
      [] c.t = "str" -> IsSubstring(Chars[key], c.s)
      [] c.t = "list" -> \E i \in 1..Len(c.items) : c.items[i] = Str(key)

\* c[key] for a str key: only a dict takes one
PyGetItem(c, key) ==
    IF c.t # "dict" THEN Raise("TypeError")
    ELSE IF key \notin DOMAIN c.kv THEN Raise("KeyError")
    ELSE Return(c.kv[key])

\* the elements of a set, in some order
RECURSIVE SetToSeq(_)
SetToSeq(S) ==
    IF S = {} THEN <<>>
    ELSE LET x == CHOOSE y \in S : TRUE IN <<x>> \o SetToSeq(S \ {x})

\* what `for item in c` visits: the elements of a list, the keys of a dict,
\* the characters of a str; any other value is not iterable
IterItems(c) ==
    CASE c.t = "list" -> c.items
      [] c.t = "dict" -> [i \in 1..Cardinality(DOMAIN c.kv) |->
                             Str(SetToSeq(DOMAIN c.kv)[i])]
      [] c.t = "str" -> [i \in 1..Len(c.s) |-> PyStr(<<c.s[i]>>)]
      [] OTHER -> <<>>

Iterable(c) == c.t \in {"list", "dict", "str"}

----------------------------------------------------------------------------
(* Module constants and the timestamp conversions *)

BASE_URL == "http://flightxml.flightaware.com/json/FlightXML2/"

MAX_RECORD_LENGTH == 15

\* datetime.datetime(1970, 1, 1): naive
EPOCH == PyDatetime(0, 0, 0, "naive")

\* AirlineInsightReportType.PERCENTAGE_SCHEDULED_ACTUALLY_FLOWN
PERCENTAGE_SCHEDULED_ACTUALLY_FLOWN == 2

\* val - EPOCH: a timedelta, normalised to 0 <= microseconds < 10^6
TimeDelta(val) ==
    LET us == val.microseconds - EPOCH.microseconds
        borrow == IF us < 0 THEN 1 ELSE 0
    IN [seconds |-> (val.days - EPOCH.days) * 86400
                      + (val.seconds - EPOCH.seconds) - borrow,
        microseconds |-> us + borrow * 1000000]

\* int(delta.total_seconds()): the seconds with the fraction cut toward zero
IntTotalSeconds(delta) ==
    IF delta.seconds < 0 /\ delta.microseconds > 0
    THEN delta.seconds + 1
    ELSE delta.seconds

to_unix_timestamp(val) ==
    IF Truthy(val)
    THEN IF val.t # "datetime" THEN Raise("ValueError")
         \* an aware datetime minus the naive EPOCH raises TypeError
         ELSE IF val.tzinfo # EPOCH.tzinfo THEN Raise("TypeError")
         ELSE Return(PyInt(IntTotalSeconds(TimeDelta(val))))
    ELSE Return(PyNone)

\* datetime.datetime.fromtimestamp(val): the naive local time of the host,
\* whose UTC offset is offset seconds
fromtimestamp(val, offset) ==
    IF val.t # "int" THEN Raise("TypeError")
    ELSE LET local == val.n + offset
         IN Return(PyDatetime(local \div 86400, local % 86400, 0, "naive"))

from_unix_timestamp(val) == fromtimestamp(val, tz)

----------------------------------------------------------------------------
(* Client.__init__ and Client._request *)

\* HTTPBasicAuth(username, api_key)
HTTPBasicAuth(username, api_key) == [username |-> username, password |-> api_key]

InitHeaders == ("Content-Type" :> "application/x-www-form-urlencoded")

\* the (username, api_key) pairs a client is constructed with
Credentials == {<<"alice", "key-a">>, <<"bob", "key-b">>}

\* the UTC offsets of the hosts a client runs on: US Central standard time, UTC
HostOffsets == {-21600, 0}

NoCall == [op |-> "", args |-> <<>>]

NoReply == [kind |-> "none", body |-> PyNone]

NoTrip == [phase |-> "idle", d |-> PyNone, ts |-> Return(PyNone), back |-> Return(PyNone)]

\* unwrap with the key formatted wrongly: the method name without "Result"
unwrap_wrong_key(method, result) ==
    LET key == method IN
    IF ~SupportsIn(result) THEN Raise("TypeError")
    ELSE IF ~PyContains(key, result) THEN Return(result)
    ELSE LET got == PyGetItem(result, key) IN
         IF got.exc # "none" THEN got
         ELSE LET final == got.value IN
              IF ~SupportsIn(final) THEN Raise("TypeError")
              ELSE IF ~PyContains("data", final) THEN Return(final)
              ELSE PyGetItem(final, "data")

\* the key = "{}Result".format(method) unwrapping of the decoded body
unwrap(method, result) ==
    LET key == method \o "Result" IN
    IF ~SupportsIn(result) THEN Raise("TypeError")
    ELSE IF ~PyContains(key, result) THEN Return(result)
    ELSE LET got == PyGetItem(result, key) IN
         IF got.exc # "none" THEN got
         ELSE LET final == got.value IN
              IF ~SupportsIn(final) THEN Raise("TypeError")
              ELSE IF ~PyContains("data", final) THEN Return(final)
              ELSE PyGetItem(final, "data")

\* _request posting again when the first POST failed in transport
_request_retry(method, data, rep) ==
    LET url == BASE_URL \o method
        req == [url |-> url, data |-> data, auth |-> auth, headers |-> headers]
        r == IF rep.kind = "ConnectionError" THEN Raise("ConnectionError")
             ELSE IF rep.kind = "not_json" THEN Raise("JSONDecodeError")
             ELSE unwrap(method, rep.body)
    IN [sent |-> IF rep.kind = "ConnectionError" THEN <<req, req>> ELSE <<req>>,
        reply |-> rep, exc |-> r.exc, value |-> r.value]

\* _request posting without headers=self.headers
_request_no_headers(method, data, rep) ==
    LET url == BASE_URL \o method
        req == [url |-> url, data |-> data, auth |-> auth, headers |-> <<>>]
        r == IF rep.kind = "ConnectionError" THEN Raise("ConnectionError")
             ELSE IF rep.kind = "not_json" THEN Raise("JSONDecodeError")
             ELSE unwrap(method, rep.body)
    IN [sent |-> <<req>>, reply |-> rep, exc |-> r.exc, value |-> r.value]

\* _request catching the faults of the POST and of the decoding, returning None
_request_swallows(method, data, rep) ==
    LET url == BASE_URL \o method
        req == [url |-> url, data |-> data, auth |-> auth, headers |-> headers]
        r == IF rep.kind = "ConnectionError" THEN Return(PyNone)
             ELSE IF rep.kind = "not_json" THEN Return(PyNone)
             ELSE unwrap(method, rep.body)
    IN [sent |-> <<req>>, reply |-> rep, exc |-> r.exc, value |-> r.value]

\* one requests.post and the decoding of its body; rep is what the service and
\* the transport do with the request
_request(method, data, rep) ==
    LET url == BASE_URL \o method
        req == [url |-> url, data |-> data, auth |-> auth, headers |-> headers]
        r == IF rep.kind = "ConnectionError" THEN Raise("ConnectionError")
             ELSE IF rep.kind = "not_json" THEN Raise("JSONDecodeError")
             ELSE unwrap(method, rep.body)
    IN [sent |-> <<req>>, reply |-> rep, exc |-> r.exc, value |-> r.value]

\* a call that ends before _request is reached
NotSent(r) == [sent |-> <<>>, reply |-> NoReply, exc |-> r.exc, value |-> r.value]

NoProbe ==
    [phase |-> "idle", method |-> "", body |-> PyNone,
     result |-> NotSent(Return(PyNone))]

\* the observable end of an operation call; the client's own state is not written
Finish(op, args, res) ==
    /\ call' = [op |-> op, args |-> args]
    /\ sent' = res.sent
    /\ reply' = res.reply
    /\ outcome' = [exc |-> res.exc, value |-> res.value]
    /\ UNCHANGED <<auth, headers, constructed, tz, trip, probe>>

\* a stub that tries the vendor method before giving up
NotImplemented_after_request(op, args) ==
    Finish(op, args,
           [sent |-> <<[url |-> BASE_URL \o op, data |-> PyNone, auth |-> auth,
                        headers |-> headers]>>,
            reply |-> NoReply, exc |-> "NotImplementedError", value |-> PyNone])

\* raise NotImplementedError
NotImplemented(op, args) ==
    Finish(op, args, NotSent(Raise("NotImplementedError")))

----------------------------------------------------------------------------
(* What the service may answer *)

AirportRecord ==
    PyDict(("name" :> Str("Nashville")) @@ ("location" :> Str("BNA"))
           @@ ("timezone" :> Str("ok")))

\* the Result key of another vendor method
OtherKey(method) == IF method = "Metar" THEN "AirportInfoResult" ELSE "MetarResult"

\* decoded JSON bodies the service sends for a call of method: a domain error,
\* the enveloped payload, the flattened payload (an object, a number)
Bodies(method) ==
    LET key == method \o "Result" IN
    { PyDict("error" :> Str("INVALID")),
      PyDict(key :> PyDict("data" :> PyList(<<Str("SWA"), Str("data")>>))),
      PyDict(key :> AirportRecord),
      PyDict(key :> PyInt(1)) }

\* further decoded JSON bodies: a text or a list under the Result key, the
\* envelope of another method, a bare "data" key, bodies that are no object
WideBodies(method) ==
    LET key == method \o "Result" IN
    Bodies(method) \cup
    { PyDict(key :> Str("METAR")),
      PyDict(key :> Str("metadata")),
      PyDict(key :> PyList(<<Str("SWA")>>)),
      PyDict(key :> PyList(<<Str("data")>>)),
      PyDict(key :> PyNone),
      PyDict(key :> EmptyDict),
      PyDict(key :> PyDict(("data" :> PyNone) @@ ("error" :> Str("INVALID")))),
      PyDict(OtherKey(method) :> PyDict("data" :> AirportRecord)),
      PyDict("data" :> PyList(<<Str("SWA")>>)),
      EmptyDict,
      PyList(<<>>),
      PyList(<<Str(key)>>),
      Str(key),
      Str("ok"),
      PyInt(0),
      PyNone }

Json(body) == [kind |-> "json", body |-> body]

TransportFaults ==
    { [kind |-> "ConnectionError", body |-> PyNone],
      [kind |-> "not_json", body |-> PyNone] }

\* the vendor methods the client posts to
Methods ==
    { "AircraftType", "AirlineFlightInfo", "AirlineFlightSchedules", "AirlineInfo",
      "AirlineInsight", "AirportInfo", "AllAirlines", "AllAirports",
      "BlockIdentCheck", "CountAirportOperations",
      "CountAllEnrouteAirlineOperations", "GetFlightID", "Metar", "MetarEx",
      "NTaf", "TailOwner", "ZipcodeInfo" }

RepliesOf ==
    [method \in Methods |-> TransportFaults \cup { Json(b) : b \in Bodies(method) }]

Replies(method) == RepliesOf[method]

FlightRecord(ident, dep, arr) ==
    PyDict(("ident" :> Str(ident)) @@ ("departuretime" :> PyInt(dep))
           @@ ("arrivaltime" :> PyInt(arr)))

\* the records of a schedule: two complete ones and one without arrivaltime
FlightRecords ==
    { FlightRecord("SWA1", 3600, 7200),
      FlightRecord("SWA2", 86399, 90000),
      PyDict(("ident" :> Str("SWA1")) @@ ("departuretime" :> PyInt(-1))) }

RecordLists == UNION { [1..k -> FlightRecords] : k \in 0..MaxRecords }

ScheduleReplies ==
    Replies("AirlineFlightSchedules")
    \cup { Json(PyDict("AirlineFlightSchedulesResult" :> PyDict("data" :> PyList(l)))) :
             l \in RecordLists }
    \cup { Json(PyDict("AirlineFlightSchedulesResult" :> PyList(<<r>>))) :
             r \in FlightRecords }
    \cup { Json(PyDict("AirlineFlightSchedulesResult" :> EmptyDict)) }

----------------------------------------------------------------------------
(* The arguments callers pass *)

Airports == { Str("BNA"), Str("KasdfBNA") }

Airlines == { Str("SWA") }

Idents == { Str("N12345") }

Types == { Str("GALX") }

FlightIds == { Str("SWA1") }

Zipcodes == { Str("37221") }

\* values passed as a timestamp: absent, falsy but not None, a str, an aware
\* datetime, and naive datetimes after and before the epoch
TimeArgs ==
    { PyNone, PyInt(0), Str("2013-01-01"),
      PyDatetime(1, 0, 0, "aware"),
      PyDatetime(0, 3600, 0, "naive"),
      PyDatetime(1, 7200, 500000, "naive"),
      PyDatetime(-1, 86399, 500000, "naive") }

\* the call of test_get_flight_info, with the defaults of the signature
TestSchedule ==
    [start_date |-> PyDatetime(0, 3600, 0, "naive"),
     end_date |-> PyDatetime(1, 7200, 500000, "naive"),
     origin |-> Str("BNA"), destination |-> Str("ATL"),
     airline |-> PyNone, flight_number |-> PyNone,
     how_many |-> PyInt(MAX_RECORD_LENGTH), offset |-> PyInt(0)]

\* calls of airline_flight_schedules: the test's call with one argument changed
ScheduleArgs ==
    { [TestSchedule EXCEPT !.start_date = v] :
        v \in { PyNone, Str("2013-01-01"), PyDatetime(1, 0, 0, "aware") } }
    \cup { TestSchedule,
           [TestSchedule EXCEPT !.end_date = Str("2013-01-01")],
           [TestSchedule EXCEPT !.how_many = PyInt(MAX_RECORD_LENGTH + 1)],
           [TestSchedule EXCEPT !.offset = PyInt(-1)],
           [TestSchedule EXCEPT !.origin = PyNone, !.destination = PyNone,
                                !.airline = Str("SWA"), !.flight_number = Str("SWA1")] }

----------------------------------------------------------------------------
(* The implemented operations of Client *)

aircraft_type ==
    \E aircraft_type_ \in Types, rep \in Replies("AircraftType") :
        LET data == PyDict("type" :> aircraft_type_)
        IN Finish("aircraft_type", ("aircraft_type" :> aircraft_type_), _request("AircraftType", data, rep))

airline_flight_info ==
    \E fa_flight_id_ \in FlightIds, rep \in Replies("AirlineFlightInfo") :
        LET data == PyDict("faFlightID" :> fa_flight_id_)
        IN Finish("airline_flight_info", ("fa_flight_id" :> fa_flight_id_), _request("AirlineFlightInfo", data, rep))

airline_info ==
    \E airline_ \in Airlines, rep \in Replies("AirlineInfo") :
        LET data == PyDict("airlineCode" :> airline_)
        IN Finish("airline_info", ("airline" :> airline_), _request("AirlineInfo", data, rep))

airport_info ==
    \E airport_ \in Airports, rep \in Replies("AirportInfo") :
        LET data == PyDict("airportCode" :> airport_)
        IN Finish("airport_info", ("airport" :> airport_), _request("AirportInfo", data, rep))

block_indent_check ==
    \E ident_ \in Idents, rep \in Replies("BlockIdentCheck") :
        LET data == PyDict("ident" :> ident_)
        IN Finish("block_indent_check", ("ident" :> ident_), _request("BlockIdentCheck", data, rep))

count_airport_operations ==
    \E airport_ \in Airports, rep \in Replies("CountAirportOperations") :
        LET data == PyDict("airport" :> airport_)
        IN Finish("count_airport_operations", ("airport" :> airport_), _request("CountAirportOperations", data, rep))

metar ==
    \E airport_ \in Airports, rep \in Replies("Metar") :
        LET data == PyDict("airport" :> airport_)
        IN Finish("metar", ("airport" :> airport_), _request("Metar", data, rep))

metar_ex ==
    \E airport_ \in Airports, rep \in Replies("MetarEx") :
        LET data == PyDict("airport" :> airport_)
        IN Finish("metar_ex", ("airport" :> airport_), _request("MetarEx", data, rep))

ntaf ==
    \E airport_ \in Airports, rep \in Replies("NTaf") :
        LET data == PyDict("airport" :> airport_)
        IN Finish("ntaf", ("airport" :> airport_), _request("NTaf", data, rep))

taf ==
    \E airport_ \in Airports, rep \in Replies("NTaf") :
        LET data == PyDict("airport" :> airport_)
        IN Finish("taf", ("airport" :> airport_), _request("NTaf", data, rep))

tail_owner ==
    \E ident_ \in Idents, rep \in Replies("TailOwner") :
        LET data == PyDict("ident" :> ident_)
        IN Finish("tail_owner", ("ident" :> ident_), _request("TailOwner", data, rep))

zipcode_info ==
    \E zipcode_ \in Zipcodes, rep \in Replies("ZipcodeInfo") :
        LET data == PyDict("zipcode" :> zipcode_)
        IN Finish("zipcode_info", ("zipcode" :> zipcode_), _request("ZipcodeInfo", data, rep))

all_airlines ==
    \E rep \in Replies("AllAirlines") :
        Finish("all_airlines", <<>>, _request("AllAirlines", PyNone, rep))

all_airports ==
    \E rep \in Replies("AllAirports") :
        Finish("all_airports", <<>>, _request("AllAirports", PyNone, rep))

count_all_enroute_airline_operations ==
    \E rep \in Replies("CountAllEnrouteAirlineOperations") :
        Finish("count_all_enroute_airline_operations", <<>>, _request("CountAllEnrouteAirlineOperations", PyNone, rep))
\* AugmentItem with the two raw fields crossed
AugmentItem_crossed(item) ==
    LET dep == PyGetItem(item, "arrivaltime") IN
    IF dep.exc # "none" THEN dep
    ELSE LET departure_time == from_unix_timestamp(dep.value) IN
         IF departure_time.exc # "none" THEN departure_time
         ELSE LET arr == PyGetItem(item, "departuretime") IN
              IF arr.exc # "none" THEN arr
              ELSE LET arrival_time == from_unix_timestamp(arr.value) IN
                   IF arrival_time.exc # "none" THEN arrival_time
                   ELSE Return(PyDict(("departure_time" :> departure_time.value)
                                      @@ ("arrival_time" :> arrival_time.value)
                                      @@ item.kv))

\* the body of the loop for one item: both derived fields are set on it
AugmentItem(item) ==
    LET dep == PyGetItem(item, "departuretime") IN
    IF dep.exc # "none" THEN dep
    ELSE LET departure_time == from_unix_timestamp(dep.value) IN
         IF departure_time.exc # "none" THEN departure_time
         ELSE LET arr == PyGetItem(item, "arrivaltime") IN
              IF arr.exc # "none" THEN arr
              ELSE LET arrival_time == from_unix_timestamp(arr.value) IN
                   IF arrival_time.exc # "none" THEN arrival_time
                   ELSE Return(PyDict(("departure_time" :> departure_time.value)
                                      @@ ("arrival_time" :> arrival_time.value)
                                      @@ item.kv))

\* the loop from item i on: the first item that raises ends it
RECURSIVE AugmentFrom(_, _)
AugmentFrom(items, i) ==
    IF i > Len(items) THEN Return(<<>>)
    ELSE LET head == AugmentItem(items[i]) IN
         IF head.exc # "none" THEN head
         ELSE LET rest == AugmentFrom(items, i + 1) IN
              IF rest.exc # "none" THEN rest
              ELSE Return(<<head.value>> \o rest.value)

\* the loop over results: every item augmented in place
AugmentResults(results) ==
    IF ~Iterable(results) THEN Raise("TypeError")
    ELSE LET done == AugmentFrom(IterItems(results), 1) IN
         IF done.exc # "none" THEN done
         ELSE IF results.t = "list" THEN Return(PyList(done.value))
         ELSE Return(results)

airline_flight_schedules ==
    \E a \in ScheduleArgs, rep \in ScheduleReplies :
        LET startDate == to_unix_timestamp(a.start_date)
            endDate == to_unix_timestamp(a.end_date)
        IN
        IF startDate.exc # "none"
        THEN Finish("airline_flight_schedules", a, NotSent(startDate))
        ELSE IF endDate.exc # "none"
        THEN Finish("airline_flight_schedules", a, NotSent(endDate))
        ELSE LET data == PyDict(("startDate" :> startDate.value)
                                @@ ("endDate" :> endDate.value)
                                @@ ("origin" :> a.origin)
                                @@ ("destination" :> a.destination)
                                @@ ("airline" :> a.airline)
                                @@ ("flightno" :> a.flight_number)
                                @@ ("howMany" :> a.how_many)
                                @@ ("offset" :> a.offset))
                 results == _request("AirlineFlightSchedules", data, rep)
             IN IF results.exc # "none"
                THEN Finish("airline_flight_schedules", a, results)
                ELSE LET augmented == AugmentResults(results.value)
                     IN Finish("airline_flight_schedules", a,
                               [results EXCEPT !.exc = augmented.exc,
                                               !.value = augmented.value])

airline_insight ==
    \E origin \in Airports, destination \in { Str("ATL") },
       report_type \in { PyInt(PERCENTAGE_SCHEDULED_ACTUALLY_FLOWN), PyInt(4) },
       rep \in Replies("AirlineInsight") :
        LET data == PyDict(("origin" :> origin) @@ ("destination" :> destination)
                           @@ ("reportType" :> report_type))
        IN Finish("airline_insight",
                  ("origin" :> origin) @@ ("destination" :> destination)
                  @@ ("report_type" :> report_type),
                  _request("AirlineInsight", data, rep))

get_flight_id ==
    \E ident \in { Str("SWA1") }, departure_datetime \in TimeArgs,
       rep \in Replies("GetFlightID") :
        LET args == ("ident" :> ident) @@ ("departure_datetime" :> departure_datetime)
            departureTime == to_unix_timestamp(departure_datetime)
        IN IF departureTime.exc # "none"
           THEN Finish("get_flight_id", args, NotSent(departureTime))
           ELSE Finish("get_flight_id", args,
                       _request("GetFlightID",
                                PyDict(("ident" :> ident)
                                       @@ ("departureTime" :> departureTime.value)),
                                rep))

----------------------------------------------------------------------------
(* The unimplemented operations of Client *)

decode_flight_route == NotImplemented("decode_flight_route", <<>>)

decode_route == NotImplemented("decode_route", <<>>)

enroute == NotImplemented("enroute", <<>>)

fleet_arrived == NotImplemented("fleet_arrived", <<>>)

fleet_scheduled == NotImplemented("fleet_scheduled", <<>>)

flight_info_ex == NotImplemented("flight_info_ex", <<>>)

get_historical_track == NotImplemented("get_historical_track", <<>>)

get_last_track == NotImplemented("get_last_track", <<>>)

inbound_flight_info == NotImplemented("inbound_flight_info", <<>>)

in_flight_info == NotImplemented("in_flight_info", <<>>)

lat_lng_to_distance == NotImplemented("lat_lng_to_distance", <<>>)

lat_lng_to_heading == NotImplemented("lat_lng_to_heading", <<>>)

map_flight == NotImplemented("map_flight", <<>>)

map_flight_ex == NotImplemented("map_flight_ex", <<>>)

routes_between_airports == NotImplemented("routes_between_airports", <<>>)

routes_between_airports_ex == NotImplemented("routes_between_airports_ex", <<>>)

scheduled == NotImplemented("scheduled", <<>>)

search == NotImplemented("search", <<>>)

search_birdseye_in_flight == NotImplemented("search_birdseye_in_flight", <<>>)

search_birdseye_positions == NotImplemented("search_birdseye_positions", <<>>)

search_count == NotImplemented("search_count", <<>>)

set_maximum_result_sizes == NotImplemented("set_maximum_result_sizes", <<>>)

get_alerts == NotImplemented("get_alerts", <<>>)

delete_alert == NotImplemented("delete_alert", <<>>)

set_alert == NotImplemented("set_alert", <<>>)

register_alert_endpoint == NotImplemented("register_alert_endpoint", <<>>)

arrived ==
    \E airport \in Airports, how_many \in { PyInt(MAX_RECORD_LENGTH) } :
        NotImplemented("arrived", ("airport" :> airport) @@ ("how_many" :> how_many))

departed ==
    \E airport \in Airports, how_many \in { PyInt(MAX_RECORD_LENGTH) } :
        NotImplemented("departed", ("airport" :> airport) @@ ("how_many" :> how_many))

flight_info ==
    \E ident \in Idents, how_many \in { PyInt(MAX_RECORD_LENGTH) } :
        NotImplemented("flight_info", ("ident" :> ident) @@ ("how_many" :> how_many))

----------------------------------------------------------------------------
(* The client as a state machine: any operation may be called at any time *)

\* Client.__init__(username, api_key)
Client__init__(username, api_key) ==
    [auth |-> HTTPBasicAuth(username, api_key), headers |-> InitHeaders]

Constructed ==
    /\ \E c \in Credentials : constructed = Client__init__(c[1], c[2])
    /\ auth = constructed.auth
    /\ headers = constructed.headers
    /\ tz \in HostOffsets
    /\ call = NoCall
    /\ sent = <<>>
    /\ reply = NoReply
    /\ outcome = Return(PyNone)

Init == Constructed /\ trip = NoTrip /\ probe = NoProbe

Implemented ==
    { "aircraft_type", "airline_flight_info", "airline_flight_schedules",
    "airline_info", "airline_insight", "airport_info", "all_airlines",
    "all_airports", "block_indent_check", "count_airport_operations",
    "count_all_enroute_airline_operations", "get_flight_id", "metar", "metar_ex",
    "ntaf", "taf", "tail_owner", "zipcode_info" }

Unimplemented ==
    { "arrived", "decode_flight_route", "decode_route", "delete_alert",
    "departed", "enroute", "fleet_arrived", "fleet_scheduled", "flight_info",
    "flight_info_ex", "get_alerts", "get_historical_track", "get_last_track",
    "in_flight_info", "inbound_flight_info", "lat_lng_to_distance",
    "lat_lng_to_heading", "map_flight", "map_flight_ex",
    "register_alert_endpoint", "routes_between_airports",
    "routes_between_airports_ex", "scheduled", "search",
    "search_birdseye_in_flight", "search_birdseye_positions", "search_count",
    "set_alert", "set_maximum_result_sizes" }

Next ==
    \/ aircraft_type
    \/ airline_flight_info
    \/ airline_flight_schedules
    \/ airline_info
    \/ airline_insight
    \/ airport_info
    \/ all_airlines
    \/ all_airports
    \/ block_indent_check
    \/ count_airport_operations
    \/ count_all_enroute_airline_operations
    \/ get_flight_id
    \/ metar
    \/ metar_ex
    \/ ntaf
    \/ taf
    \/ tail_owner
    \/ zipcode_info
    \/ arrived
    \/ decode_flight_route
    \/ decode_route
    \/ delete_alert
    \/ departed
    \/ enroute
    \/ fleet_arrived
    \/ fleet_scheduled
    \/ flight_info
    \/ flight_info_ex
    \/ get_alerts
    \/ get_historical_track
    \/ get_last_track
    \/ in_flight_info
    \/ inbound_flight_info
    \/ lat_lng_to_distance
    \/ lat_lng_to_heading
    \/ map_flight
    \/ map_flight_ex
    \/ register_alert_endpoint
    \/ routes_between_airports
    \/ routes_between_airports_ex
    \/ scheduled
    \/ search
    \/ search_birdseye_in_flight
    \/ search_birdseye_positions
    \/ search_count
    \/ set_alert
    \/ set_maximum_result_sizes

Spec == Init /\ [][Next]_vars

----------------------------------------------------------------------------
(* The timestamp conversions on their own: a datetime is converted to epoch *)
(* seconds and the seconds are converted back on the same host              *)

BenchSeconds == {0, 1, 3599, 43200, 86399}

BenchDatetimes ==
    { PyDatetime(d, s, us, "naive") :
        d \in (-MaxDays)..MaxDays, s \in BenchSeconds, us \in {0, 500000} }

\* the hosts of the bench: west of, at and east of UTC
BenchOffsets == {-21600, 0, 3600}

TimeInit ==
    /\ \E c \in Credentials : constructed = Client__init__(c[1], c[2])
    /\ auth = constructed.auth
    /\ headers = constructed.headers
    /\ tz \in BenchOffsets
    /\ call = NoCall
    /\ sent = <<>>
    /\ reply = NoReply
    /\ outcome = Return(PyNone)
    /\ probe = NoProbe
    /\ \E d \in BenchDatetimes \cup TimeArgs :
         trip = [NoTrip EXCEPT !.phase = "input", !.d = d]

ToUnix ==
    /\ trip.phase = "input"
    /\ trip' = [trip EXCEPT !.phase = "stamped", !.ts = to_unix_timestamp(trip.d)]
    /\ UNCHANGED <<auth, headers, constructed, tz, call, sent, reply, outcome, probe>>

FromUnix ==
    /\ trip.phase = "stamped"
    /\ trip.ts.exc = "none"
    /\ trip' = [trip EXCEPT !.phase = "back",
                            !.back = from_unix_timestamp(trip.ts.value)]
    /\ UNCHANGED <<auth, headers, constructed, tz, call, sent, reply, outcome, probe>>

TimeNext == ToUnix \/ FromUnix

SpecTime == TimeInit /\ [][TimeNext]_vars

----------------------------------------------------------------------------
(* Client._request on its own: one call for a method and a decoded body *)

RequestInit ==
    /\ Constructed
    /\ trip = NoTrip
    /\ \E method \in Methods :
         \E body \in WideBodies(method) :
            probe = [NoProbe EXCEPT !.phase = "input", !.method = method,
                                    !.body = body]

Request ==
    /\ probe.phase = "input"
    /\ probe' = [probe EXCEPT !.phase = "done",
                              !.result = _request(probe.method, PyNone,
                                                  Json(probe.body))]
    /\ UNCHANGED <<auth, headers, constructed, tz, call, sent, reply, outcome, trip>>

RequestNext == Request

SpecRequest == RequestInit /\ [][RequestNext]_vars

----------------------------------------------------------------------------
(* Vocabulary of the properties *)

\* v is a JSON object that has the key k
HasKey(v, k) == v.t = "dict" /\ k \in DOMAIN v.kv

\* the payload of body B for a method, as the envelope is documented:
\* B["<M>Result"]["data"], else B["<M>Result"], else B
Payload(method, B) ==
    LET key == method \o "Result" IN
    IF HasKey(B, key)
    THEN IF HasKey(B.kv[key], "data") THEN B.kv[key].kv["data"] ELSE B.kv[key]
    ELSE B

\* the service answered with a domain error
IsErrorObject(B) == HasKey(B, "error")

----------------------------------------------------------------------------
(* C1 *)

\* C1: for every method M and decoded body B, _request returns the payload of
\* B: B[M+"Result"]["data"], or B[M+"Result"] when that has no "data" key, or B
\* itself when B has no key M+"Result".  Stated for the bodies that are JSON
\* objects, the ones the claim's three cases describe.
C1_RequestReturnsPayload ==
    (probe.phase = "done" /\ probe.body.t = "dict") =>
        /\ probe.result.exc = "none"
        /\ probe.result.value = Payload(probe.method, probe.body)

----------------------------------------------------------------------------
(* C2 *)

\* C2: a call of an unimplemented operation, after any earlier calls, ends in
\* NotImplementedError and issues no HTTP request.
C2_UnimplementedRaisesWithoutRequest ==
    call.op \in Unimplemented =>
        /\ outcome.exc = "NotImplementedError"
        /\ sent = <<>>

C2_Witness ==
    /\ call.op = "set_maximum_result_sizes"
    /\ outcome.exc = "NotImplementedError"
    /\ sent = <<>>

----------------------------------------------------------------------------
(* C3 *)

\* a value to_unix_timestamp rejects: truthy and no datetime (ValueError), or a
\* datetime that carries a tzinfo (TypeError)
RejectedTimestamp(v) ==
    \/ v.t \notin {"NoneType", "datetime"} /\ Truthy(v)
    \/ v.t = "datetime" /\ v.tzinfo # "naive"

\* the most recent call passed a timestamp argument that is rejected
TimestampRejected ==
    \/ /\ call.op = "airline_flight_schedules"
       /\ \/ RejectedTimestamp(call.args.start_date)
          \/ RejectedTimestamp(call.args.end_date)
    \/ /\ call.op = "get_flight_id"
       /\ RejectedTimestamp(call.args.departure_datetime)

\* C3 as stated: every call of an implemented operation, whatever its
\* arguments, performs exactly one HTTP POST.
C3_ExactlyOnePost ==
    call.op \in Implemented => Len(sent) = 1

\* C3 as amended: a call of an implemented operation performs exactly one HTTP
\* POST, unless airline_flight_schedules or get_flight_id is passed a timestamp
\* that to_unix_timestamp rejects; that call raises ValueError or TypeError and
\* performs no POST.
C3_OnePostUnlessTimestampRejected ==
    call.op \in Implemented =>
        IF TimestampRejected
        THEN sent = <<>> /\ outcome.exc \in {"ValueError", "TypeError"}
        ELSE Len(sent) = 1

C3_Witness ==
    /\ call.op = "airline_flight_schedules"
    /\ ~TimestampRejected
    /\ Len(sent) = 1
    /\ outcome.exc = "none"

----------------------------------------------------------------------------
(* C4 *)

\* C4: when the service answers with a JSON object holding "error", every
\* implemented operation, airline_flight_schedules included, returns that
\* object and raises nothing.
C4_DomainErrorIsReturned ==
    (call.op \in Implemented /\ reply.kind = "json" /\ IsErrorObject(reply.body)) =>
        /\ outcome.exc = "none"
        /\ outcome.value = reply.body
        /\ HasKey(outcome.value, "error")

----------------------------------------------------------------------------
(* C5 *)

\* the AirportInfoResult envelope of an airport record
IsAirportEnvelope(B) ==
    /\ HasKey(B, "AirportInfoResult")
    /\ B.kv["AirportInfoResult"].t = "dict"
    /\ ~HasKey(B.kv["AirportInfoResult"], "error")

\* C5: airport_info returns a result containing "error" when the service
\* replies with an error object, and the unwrapped airport record, without
\* "error", when the service replies with the AirportInfoResult envelope.
C5_AirportInfoErrorIffErrorReply ==
    (call.op = "airport_info" /\ reply.kind = "json") =>
        /\ IsErrorObject(reply.body) =>
              outcome.exc = "none" /\ HasKey(outcome.value, "error")
        /\ IsAirportEnvelope(reply.body) =>
              /\ outcome.exc = "none"
              /\ outcome.value = Payload("AirportInfo", reply.body)
              /\ ~HasKey(outcome.value, "error")

C5_Witness ==
    /\ call.op = "airport_info"
    /\ reply.kind = "json"
    /\ IsAirportEnvelope(reply.body)
    /\ outcome.value = AirportRecord

----------------------------------------------------------------------------
(* C6 *)

\* C6: each operation posts to the vendor method of its own name, one to one:
\* two calls that post to the same URL are calls of the same operation, and
\* taf posts to Taf, ntaf to NTaf.
C6_OneMethodPerOperation ==
    [][ /\ (sent # <<>> /\ sent' # <<>> /\ sent[1].url = sent'[1].url)
            => call.op = call'.op
        /\ (call'.op = "taf" /\ sent' # <<>>)
            => sent'[1].url = BASE_URL \o "Taf"
        /\ (call'.op = "ntaf" /\ sent' # <<>>)
            => sent'[1].url = BASE_URL \o "NTaf" ]_vars

----------------------------------------------------------------------------
(* C7 *)

\* C7: every request airline_flight_schedules posts carries howMany <= 15 and
\* offset >= 0.
C7_PostedLimits ==
    call.op = "airline_flight_schedules" =>
        \A i \in 1..Len(sent) :
            /\ sent[i].data.kv["howMany"].n <= MAX_RECORD_LENGTH
            /\ sent[i].data.kv["offset"].n >= 0

----------------------------------------------------------------------------
(* C8 *)

\* C8: a naive datetime with whole seconds, converted to epoch seconds and
\* back, is the same date and time, on a host of any UTC offset.
C8_RoundTrip ==
    (/\ trip.phase = "back"
     /\ trip.d.t = "datetime"
     /\ trip.d.tzinfo = "naive"
     /\ trip.d.microseconds = 0) =>
        /\ trip.back.exc = "none"
        /\ trip.back.value = trip.d

----------------------------------------------------------------------------
(* C9 *)

----------------------------------------------------------------------------
(* C10 *)

\* C10: after any sequence of calls the client's auth and headers are what
\* Client.__init__ set, and every request sent carries that credential pair
\* and the Content-Type application/x-www-form-urlencoded.
C10_ClientStateNeverChanges ==
    /\ auth = constructed.auth
    /\ headers = constructed.headers
    /\ \A i \in 1..Len(sent) :
          /\ sent[i].auth = constructed.auth
          /\ "Content-Type" \in DOMAIN sent[i].headers
          /\ sent[i].headers["Content-Type"] = "application/x-www-form-urlencoded"

C10_Witness ==
    /\ call.op \in Implemented
    /\ Len(sent) = 1
    /\ outcome.exc = "ConnectionError"
    /\ auth = constructed.auth

----------------------------------------------------------------------------
(* C11 *)

\* C11: when the POST or the decoding of its body fails, the implemented
\* operation raises that fault, returns no value, and has issued exactly one
\* request.
C11_TransportFaultPropagatesOnce ==
    (call.op \in Implemented /\ reply \in TransportFaults) =>
        /\ outcome.exc =
             (IF reply.kind = "ConnectionError" THEN "ConnectionError"
              ELSE "JSONDecodeError")
        /\ outcome.value = PyNone
        /\ Len(sent) = 1

C11_Witness ==
    /\ call.op = "airline_flight_schedules"
    /\ reply.kind = "not_json"
    /\ outcome.exc = "JSONDecodeError"
    /\ Len(sent) = 1

----------------------------------------------------------------------------
(* C12 *)

\* the whole seconds from 1970-01-01T00:00:00 to the naive datetime d
WholeSecondsSinceEpoch(d) ==
    LET s == d.days * 86400 + d.seconds
    IN IF s < 0 /\ d.microseconds > 0 THEN s + 1 ELSE s

\* what C12 requires of timestamp argument v, sent under the parameter name:
\* in a request that is posted, whole seconds for a naive datetime and None
\* for None; ValueError and no request for anything else that is no datetime
TimestampSentAsClaimed(v, name) ==
    /\ \A i \in 1..Len(sent) :
          /\ (v.t = "datetime" /\ v.tzinfo = "naive") =>
                sent[i].data.kv[name] = PyInt(WholeSecondsSinceEpoch(v))
          /\ v.t = "NoneType" => sent[i].data.kv[name] = PyNone
    /\ v.t \notin {"datetime", "NoneType"} =>
          /\ outcome.exc = "ValueError"
          /\ sent = <<>>

\* C12: in the body built by airline_flight_schedules and get_flight_id a
\* datetime is sent as the whole seconds since 1970-01-01T00:00:00, an absent
\* (None) timestamp as None, and a timestamp that is neither is rejected with
\* ValueError.  (The end date is converted only once the start date was.)
C12_TimestampParameters ==
    /\ call.op = "get_flight_id" =>
          TimestampSentAsClaimed(call.args.departure_datetime, "departureTime")
    /\ call.op = "airline_flight_schedules" =>
          /\ TimestampSentAsClaimed(call.args.start_date, "startDate")
          /\ ~RejectedTimestamp(call.args.start_date) =>
                TimestampSentAsClaimed(call.args.end_date, "endDate")

----------------------------------------------------------------------------
(* C13 *)

\* C13: when the value under "<M>Result" is a str or a list, _request returns
\* it unchanged and raises nothing, also when the str contains "data" or the
\* list has the element "data".
C13_TextOrListResultReturned ==
    LET key == probe.method \o "Result" IN
    (/\ probe.phase = "done"
     /\ HasKey(probe.body, key)
     /\ probe.body.kv[key].t \in {"str", "list"}) =>
        /\ probe.result.exc = "none"
        /\ probe.result.value = probe.body.kv[key]

====
